---- MODULE Spec2Model ----
(***************************************************************************)
(* Employee database management system (script.py): the pydantic Employee  *)
(* model with its four field validators, and the FastAPI handlers that     *)
(* read and write the employees collection.                                *)
(*                                                                         *)
(* Strings that the code inspects character by character (full_name,       *)
(* department) are sequences of one-character strings.  The collection is  *)
(* the sequence of its documents in insertion order: find_one, update_one  *)
(* and delete_one act on the first document that matches the filter.  The  *)
(* storage-assigned _id of a document is not modelled; a document is       *)
(* identified by its position.                                             *)
(***************************************************************************)
EXTENDS Integers, Sequences, FiniteSets, Bags, TLC

VARIABLES employees_collection, before, req, resp, procs

vars == <<employees_collection, before, req, resp, procs>>

----------------------------------------------------------------------------
(* Shapes of the values: a request with its form fields, a document, the   *)
(* result of a validator, what a handler leaves, a response, the result of *)
(* building the pydantic model, a request in progress with the place it    *)
(* has reached, and what one database call of a handler leaves.  Every     *)
(* record of the model is built by one of these constructors.              *)

Request(op, employee_id, new_id, full_name, age, department) ==
  [op |-> op, employee_id |-> employee_id, new_id |-> new_id,
   full_name |-> full_name, age |-> age, department |-> department]

Doc(employee_id, full_name, age, department) ==
  [employee_id |-> employee_id, full_name |-> full_name, age |-> age, department |-> department]

Accept(v) == [ok |-> TRUE, msg |-> "", value |-> v]
Raise(m) == [ok |-> FALSE, msg |-> m, value |-> <<>>]

Outcome(coll, response) == [coll |-> coll, resp |-> response]

Response(status, page, errors, employees) ==
  [status |-> status, page |-> page, errors |-> errors, employees |-> employees]

Model(ok, value, errors) == [ok |-> ok, value |-> value, errors |-> errors]

Proc(pc, request) == [pc |-> pc, request |-> request]

Step(coll, response, pc) == [coll |-> coll, resp |-> response, pc |-> pc]

----------------------------------------------------------------------------
(* Bounds of the model *)

\* largest employee id a request carries (ids are drawn from 0..MaxId)
MaxId == 2
\* longest free prefix of a generated name
MaxHead == 2
\* documents the collection holds when requests interleave
MaxDocs == 3

----------------------------------------------------------------------------
(* Python str operations used by the validators *)

Lowers == <<"a","b","c","d","e","f","g","h","i","j","k","l","m","n","o","p","q","r","s","t","u","v","w","x","y","z">>
Uppers == <<"A","B","C","D","E","F","G","H","I","J","K","L","M","N","O","P","Q","R","S","T","U","V","W","X","Y","Z">>

LowerSet == {Lowers[i] : i \in 1..Len(Lowers)}
UpperSet == {Uppers[i] : i \in 1..Len(Uppers)}

IsLower(c) == c \in LowerSet
IsUpper(c) == c \in UpperSet
IsAlpha(c) == IsLower(c) \/ IsUpper(c)

char_upper(c) == IF IsLower(c) THEN Uppers[CHOOSE i \in 1..Len(Lowers) : Lowers[i] = c] ELSE c
char_lower(c) == IF IsUpper(c) THEN Lowers[CHOOSE i \in 1..Len(Uppers) : Uppers[i] = c] ELSE c

\* str.lower() and str.upper()
str_lower(s) == [i \in 1..Len(s) |-> char_lower(s[i])]
str_upper(s) == [i \in 1..Len(s) |-> char_upper(s[i])]

\* str.title(): a letter that follows a letter is lowered, any other letter
\* is raised
str_title(s) ==
  [i \in 1..Len(s) |-> IF i > 1 /\ IsAlpha(s[i-1]) THEN char_lower(s[i]) ELSE char_upper(s[i])]

\* name.replace(" ", "")
str_strip_spaces(s) == SelectSeq(s, LAMBDA c : c # " ")

\* str.isalpha(): non-empty and letters only
str_isalpha(s) == Len(s) > 0 /\ \A i \in 1..Len(s) : IsAlpha(s[i])

\* c * n
str_repeat(c, n) == [i \in 1..n |-> c]

----------------------------------------------------------------------------
(* Program constants *)

InformationTechnology == <<"I","n","f","o","r","m","a","t","i","o","n"," ","T","e","c","h","n","o","l","o","g","y">>
HumanResources == <<"H","u","m","a","n"," ","R","e","s","o","u","r","c","e","s">>
Marketing == <<"M","a","r","k","e","t","i","n","g">>
Finance == <<"F","i","n","a","n","c","e">>
Operations == <<"O","p","e","r","a","t","i","o","n","s">>

List_of_Departments == <<InformationTechnology, HumanResources, Marketing, Finance, Operations>>

MinEmployeeId == 1
MinAge == 18
MaxAge == 100
MinNameLen == 5
MaxNameLen == 100
DeleteAllId == 0
SeeOther == 303
Ok == 200

MsgEmployeeId == "Employee ID must be greater than 0"
MsgAge == "Age must be within working age range"
MsgNameLength == "Length of name invalid, please enter full name"
MsgNameLetters == "Name must contain only letters"
MsgNameRepeat == "Repeating and duplicate values detected"
MsgDepartment == "Invalid Department, choose from List_of_Departments"
MsgViewNotFound == "View page: No employees found"
MsgViewEmpty == "View page: No employees added, add employees through the add function."
MsgAddExists == "Add page: Employee already exists"
MsgUpdateNotFound == "Update page: Employee not found"
MsgUpdateExists == "Update page: Employee already exists"
MsgDeleteNotFound == "Delete page: Employee not found"

----------------------------------------------------------------------------
(* Field validators: each returns the value it accepts or the message of   *)
(* the ValueError it raises                                                *)

\* validate_employee_id that lets the id 0 through
validate_employee_id_nonnegative(value) ==
  IF value < MinEmployeeId - 1 THEN Raise(MsgEmployeeId) ELSE Accept(value)

validate_employee_id(value) ==
  IF value < MinEmployeeId THEN Raise(MsgEmployeeId) ELSE Accept(value)

\* validate_age with the bounds of the range excluded
validate_age_exclusive(value) ==
  IF value <= MinAge \/ value >= MaxAge THEN Raise(MsgAge) ELSE Accept(value)

validate_age(value) ==
  IF value < MinAge \/ value > MaxAge THEN Raise(MsgAge) ELSE Accept(value)

\* validate_name with the length bounds excluded
validate_name_exclusive(name) ==
  IF Len(name) >= MaxNameLen \/ Len(name) <= MinNameLen THEN Raise(MsgNameLength)
  ELSE IF ~ str_isalpha(str_strip_spaces(name)) THEN Raise(MsgNameLetters)
  ELSE IF name = str_repeat(name[1], Len(name)) THEN Raise(MsgNameRepeat)
  ELSE Accept(name)

validate_name(name) ==
  IF Len(name) > MaxNameLen \/ Len(name) < MinNameLen THEN Raise(MsgNameLength)
  ELSE IF ~ str_isalpha(str_strip_spaces(name)) THEN Raise(MsgNameLetters)
  ELSE IF name = str_repeat(name[1], Len(name)) THEN Raise(MsgNameRepeat)
  ELSE Accept(name)

validate_department(department) ==
  IF ~ \E i \in 1..Len(List_of_Departments) : List_of_Departments[i] = department
  THEN Raise(MsgDepartment)
  ELSE Accept(str_title(department))

\* the fields of the model in declaration order, which is the order in
\* which pydantic validates them
EmployeeFields == <<"employee_id", "full_name", "age", "department">>

FieldResult(doc, f) ==
  CASE f = "employee_id" -> validate_employee_id(doc.employee_id)
    [] f = "full_name" -> validate_name(doc.full_name)
    [] f = "age" -> validate_age(doc.age)
    [] f = "department" -> validate_department(doc.department)

\* the messages of the fields that fail among the first n fields of the
\* given order, in that order
RECURSIVE FieldErrors(_, _, _)
FieldErrors(doc, order, n) ==
  IF n = 0 THEN <<>>
  ELSE LET r == FieldResult(doc, order[n])
       IN FieldErrors(doc, order, n - 1) \o (IF r.ok THEN <<>> ELSE <<r.msg>>)

NoDoc == Doc(0, <<>>, 0, <<>>)

\* the model whose fields are validated in the order in which the
\* validators are written
Employee_validator_order(doc) ==
  LET order == <<"employee_id", "age", "full_name", "department">>
      errors == FieldErrors(doc, order, Len(order))
  IN IF errors = <<>>
     THEN Model(TRUE, Doc(FieldResult(doc, "employee_id").value, FieldResult(doc, "full_name").value,
                          FieldResult(doc, "age").value, FieldResult(doc, "department").value), <<>>)
     ELSE Model(FALSE, NoDoc, errors)

\* Employee(**doc): every field is validated; the ValidationError carries
\* the failures of all failing fields
Employee(doc) ==
  LET errors == FieldErrors(doc, EmployeeFields, Len(EmployeeFields))
  IN IF errors = <<>>
     THEN Model(TRUE, Doc(FieldResult(doc, "employee_id").value, FieldResult(doc, "full_name").value,
                          FieldResult(doc, "age").value, FieldResult(doc, "department").value), <<>>)
     ELSE Model(FALSE, NoDoc, errors)

----------------------------------------------------------------------------
(* The collection *)

Matches(coll, employee_id) == {i \in 1..Len(coll) : coll[i].employee_id = employee_id}

Min(S) == CHOOSE x \in S : \A y \in S : x <= y

\* find_one({"employee_id": id}): the first matching document, or none
Found(coll, employee_id) == Matches(coll, employee_id) # {}
find_one(coll, employee_id) == coll[Min(Matches(coll, employee_id))]

insert_one(coll, doc) == Append(coll, doc)

\* update_one with upsert: no match inserts the document
update_one_upsert(coll, employee_id, doc) ==
  IF Found(coll, employee_id)
  THEN [coll EXCEPT ![Min(Matches(coll, employee_id))] = doc]
  ELSE Append(coll, doc)

\* update_one whose $set leaves the employee_id of the document alone
update_one_keep_id(coll, employee_id, doc) ==
  IF Found(coll, employee_id)
  THEN [coll EXCEPT ![Min(Matches(coll, employee_id))] = Doc(employee_id, doc.full_name, doc.age, doc.department)]
  ELSE coll

\* update_one({"employee_id": id}, {"$set": doc}): the first matching
\* document gets the fields of doc; no match changes nothing
update_one(coll, employee_id, doc) ==
  IF Found(coll, employee_id)
  THEN [coll EXCEPT ![Min(Matches(coll, employee_id))] = doc]
  ELSE coll

\* delete_one with an empty filter: the first document goes
delete_one_unfiltered(coll, employee_id) ==
  IF coll # <<>> THEN Tail(coll) ELSE coll

\* delete_one({"employee_id": id}): the first matching document goes
delete_one(coll, employee_id) ==
  IF Found(coll, employee_id)
  THEN LET k == Min(Matches(coll, employee_id))
       IN [i \in 1..(Len(coll) - 1) |-> IF i < k THEN coll[i] ELSE coll[i + 1]]
  ELSE coll

delete_many(coll) == <<>>

\* find() without the sort: the documents in insertion order
find_unsorted(coll) == coll

\* find().sort("employee_id", ASCENDING)
RECURSIVE find_sorted(_)
find_sorted(coll) ==
  IF coll = <<>> THEN <<>>
  ELSE LET k == Min({i \in 1..Len(coll) : \A j \in 1..Len(coll) : coll[i].employee_id <= coll[j].employee_id})
           rest == [i \in 1..(Len(coll) - 1) |-> IF i < k THEN coll[i] ELSE coll[i + 1]]
       IN <<coll[k]>> \o find_sorted(rest)

----------------------------------------------------------------------------
(* Responses *)

error_page(errors) == Response(Ok, "error.html", errors, <<>>)
RedirectResponse == Response(SeeOther, "/employees", <<>>, <<>>)
view_page(employees) == Response(Ok, "view.html", <<>>, employees)
NoResponse == Response(0, "", <<>>, <<>>)

----------------------------------------------------------------------------
(* Handlers: the collection and the response each leaves *)

\* the search takes the document out of the collection
\* (find_one_and_delete for find_one)
view_employees_taking(coll, employee_id) ==
  IF employee_id # 0
  THEN IF ~ Found(coll, employee_id)
       THEN Outcome(coll, error_page(<<MsgViewNotFound>>))
       ELSE Outcome(delete_one(coll, employee_id), view_page(<<find_one(coll, employee_id)>>))
  ELSE IF find_sorted(coll) = <<>>
       THEN Outcome(coll, error_page(<<MsgViewEmpty>>))
       ELSE Outcome(coll, view_page(find_sorted(coll)))

\* the search looks up a document without the id filter
view_employees_unfiltered(coll, employee_id) ==
  IF employee_id # 0
  THEN IF coll = <<>>
       THEN Outcome(coll, error_page(<<MsgViewNotFound>>))
       ELSE Outcome(coll, view_page(<<coll[1]>>))
  ELSE IF find_sorted(coll) = <<>>
       THEN Outcome(coll, error_page(<<MsgViewEmpty>>))
       ELSE Outcome(coll, view_page(find_sorted(coll)))

view_employees(coll, employee_id) ==
  IF employee_id # 0
  THEN IF ~ Found(coll, employee_id)
       THEN Outcome(coll, error_page(<<MsgViewNotFound>>))
       ELSE Outcome(coll, view_page(<<find_one(coll, employee_id)>>))
  ELSE IF find_sorted(coll) = <<>>
       THEN Outcome(coll, error_page(<<MsgViewEmpty>>))
       ELSE Outcome(coll, view_page(find_sorted(coll)))

\* the add without the existence check
add_employee_nocheck(coll, employee_id, full_name, age, department) ==
  LET validated_employee == Employee(Doc(employee_id, full_name, age, department))
  IN IF ~ validated_employee.ok
     THEN Outcome(coll, error_page(validated_employee.errors))
     ELSE Outcome(insert_one(coll, validated_employee.value), RedirectResponse)

\* the add that answers a taken id with the redirect
add_employee_silent(coll, employee_id, full_name, age, department) ==
  LET validated_employee == Employee(Doc(employee_id, full_name, age, department))
  IN IF ~ validated_employee.ok
     THEN Outcome(coll, error_page(validated_employee.errors))
     ELSE IF Found(coll, validated_employee.value.employee_id)
     THEN Outcome(coll, RedirectResponse)
     ELSE Outcome(insert_one(coll, validated_employee.value), RedirectResponse)

\* the add that overwrites a stored document of the same id
add_employee_upsert(coll, employee_id, full_name, age, department) ==
  LET validated_employee == Employee(Doc(employee_id, full_name, age, department))
  IN IF ~ validated_employee.ok
     THEN Outcome(coll, error_page(validated_employee.errors))
     ELSE IF Found(coll, validated_employee.value.employee_id)
     THEN Outcome(update_one(coll, employee_id, validated_employee.value), RedirectResponse)
     ELSE Outcome(insert_one(coll, validated_employee.value), RedirectResponse)

add_employee(coll, employee_id, full_name, age, department) ==
  LET validated_employee == Employee(Doc(employee_id, full_name, age, department))
  IN IF ~ validated_employee.ok
     THEN Outcome(coll, error_page(validated_employee.errors))
     ELSE IF Found(coll, validated_employee.value.employee_id)
     THEN Outcome(coll, error_page(<<MsgAddExists>>))
     ELSE Outcome(insert_one(coll, validated_employee.value), RedirectResponse)

\* the update that validates before it looks the document up
update_employee_validate_first(coll, employee_id, new_id, full_name, age, department) ==
  LET validated_employee == Employee(Doc(new_id, full_name, age, department))
  IN IF ~ validated_employee.ok
     THEN Outcome(coll, error_page(validated_employee.errors))
     ELSE IF ~ Found(coll, employee_id)
     THEN Outcome(coll, error_page(<<MsgUpdateNotFound>>))
     ELSE IF new_id # employee_id /\ Found(coll, validated_employee.value.employee_id)
     THEN Outcome(coll, error_page(<<MsgUpdateExists>>))
     ELSE Outcome(update_one(coll, employee_id, validated_employee.value), RedirectResponse)

\* the update without the check for another document at the new id
update_employee_nocollision(coll, employee_id, new_id, full_name, age, department) ==
  IF ~ Found(coll, employee_id)
  THEN Outcome(coll, error_page(<<MsgUpdateNotFound>>))
  ELSE LET validated_employee == Employee(Doc(new_id, full_name, age, department))
       IN IF ~ validated_employee.ok
          THEN Outcome(coll, error_page(validated_employee.errors))
          ELSE Outcome(update_one(coll, employee_id, validated_employee.value), RedirectResponse)

update_employee(coll, employee_id, new_id, full_name, age, department) ==
  IF ~ Found(coll, employee_id)
  THEN Outcome(coll, error_page(<<MsgUpdateNotFound>>))
  ELSE LET validated_employee == Employee(Doc(new_id, full_name, age, department))
       IN IF ~ validated_employee.ok
          THEN Outcome(coll, error_page(validated_employee.errors))
          ELSE IF new_id # employee_id /\ Found(coll, validated_employee.value.employee_id)
          THEN Outcome(coll, error_page(<<MsgUpdateExists>>))
          ELSE Outcome(update_one(coll, employee_id, validated_employee.value), RedirectResponse)

\* the delete without the delete-all branch
delete_employee_nosentinel(coll, employee_id) ==
  IF Found(coll, employee_id)
  THEN Outcome(delete_one(coll, employee_id), RedirectResponse)
  ELSE Outcome(coll, error_page(<<MsgDeleteNotFound>>))

delete_employee(coll, employee_id) ==
  IF Found(coll, employee_id)
  THEN Outcome(delete_one(coll, employee_id), RedirectResponse)
  ELSE IF employee_id = DeleteAllId
  THEN Outcome(delete_many(coll), RedirectResponse)
  ELSE Outcome(coll, error_page(<<MsgDeleteNotFound>>))

\* the form pages and the homepage
add_page(coll) == Outcome(coll, Response(Ok, "add.html", <<>>, <<>>))
update_page(coll) == Outcome(coll, Response(Ok, "update.html", <<>>, <<>>))
delete_page(coll) == Outcome(coll, Response(Ok, "delete.html", <<>>, <<>>))
homepage(coll) == Outcome(coll, Response(Ok, "index.html", <<>>, coll))

----------------------------------------------------------------------------
(* Requests *)

NoRequest == Request("none", 0, 0, <<>>, 0, <<>>)

JaneDoe == <<"J","a","n","e"," ","D","o","e">>
JohnRoe == <<"J","o","h","n"," ","R","o","e">>
Sales == <<"S","a","l","e","s">>

\* ids a form submits: the sentinel 0 and the ids 1..MaxId
Ids == 0..MaxId

\* the name, age and department a form submits: two records that pass
\* validation and four that fail in one or in several fields
FormFields ==
  { <<JaneDoe, MinAge, Finance>>,
    <<JohnRoe, MaxAge, HumanResources>>,
    <<str_repeat("a", MinNameLen), MinAge, Finance>>,
    <<JaneDoe, MinAge - 1, Finance>>,
    <<JaneDoe, MinAge, str_lower(Finance)>>,
    <<str_repeat("a", MinNameLen), MaxAge + 1, Sales>> }

----------------------------------------------------------------------------
(* The handlers as steps: one request is processed to completion *)

Init ==
  /\ employees_collection = <<>>
  /\ before = <<>>
  /\ req = NoRequest
  /\ resp = NoResponse
  /\ procs = EmptyBag

Handle(request, outcome) ==
  /\ before' = employees_collection
  /\ req' = request
  /\ employees_collection' = outcome.coll
  /\ resp' = outcome.resp
  /\ UNCHANGED procs

ViewEmployees ==
  \E employee_id \in Ids :
    Handle(Request("view", employee_id, 0, <<>>, 0, <<>>),
           view_employees(employees_collection, employee_id))

AddEmployee ==
  \E employee_id \in Ids, f \in FormFields :
    Handle(Request("add", employee_id, 0, f[1], f[2], f[3]),
           add_employee(employees_collection, employee_id, f[1], f[2], f[3]))

UpdateEmployee ==
  \E employee_id \in Ids, new_id \in Ids, f \in FormFields :
    Handle(Request("update", employee_id, new_id, f[1], f[2], f[3]),
           update_employee(employees_collection, employee_id, new_id, f[1], f[2], f[3]))

DeleteEmployee ==
  \E employee_id \in Ids :
    Handle(Request("delete", employee_id, 0, <<>>, 0, <<>>),
           delete_employee(employees_collection, employee_id))

AddPage == Handle(Request("add_page", 0, 0, <<>>, 0, <<>>), add_page(employees_collection))

UpdatePage == Handle(Request("update_page", 0, 0, <<>>, 0, <<>>), update_page(employees_collection))

DeletePage == Handle(Request("delete_page", 0, 0, <<>>, 0, <<>>), delete_page(employees_collection))

Homepage == Handle(Request("homepage", 0, 0, <<>>, 0, <<>>), homepage(employees_collection))

Next ==
  \/ ViewEmployees
  \/ AddEmployee
  \/ UpdateEmployee
  \/ DeleteEmployee
  \/ AddPage
  \/ UpdatePage
  \/ DeletePage
  \/ Homepage

Spec == Init /\ [][Next]_vars

----------------------------------------------------------------------------
(* Properties of the handlers, checked under Spec *)

ReqDoc == Doc(req.employee_id, req.full_name, req.age, req.department)
UpdateDoc == Doc(req.new_id, req.full_name, req.age, req.department)

\* every document of a is a document of b
Contained(a, b) == \A i \in 1..Len(a) : \E j \in 1..Len(b) : b[j] = a[i]

\* C1: in every state reached by add, update and delete requests processed
\* one after the other from the empty collection, no two stored documents
\* have the same employee_id
C1_UniqueEmployeeId ==
  \A i, j \in 1..Len(employees_collection) :
    employees_collection[i].employee_id = employees_collection[j].employee_id => i = j

\* an update has rewritten one of two stored documents
C1_Witness ==
  /\ req.op = "update"
  /\ resp = RedirectResponse
  /\ employees_collection # before
  /\ Len(employees_collection) >= 2

\* C2: an add whose fields pass validation and whose employee_id is already
\* stored is answered with the 'already exists' error and leaves the
\* collection as it was
C2_AddExistingRejected ==
  (req.op = "add" /\ Employee(ReqDoc).ok /\ Found(before, req.employee_id))
    => (resp = error_page(<<MsgAddExists>>) /\ employees_collection = before)

C2_Witness ==
  /\ req.op = "add"
  /\ Employee(ReqDoc).ok
  /\ Found(before, req.employee_id)
  /\ find_one(before, req.employee_id) # ReqDoc
  /\ resp.errors = <<MsgAddExists>>

\* C3: after an add whose fields pass validation and whose employee_id was
\* not stored, the list view and the search by that id, issued next, return
\* one document with the submitted employee_id, full_name and age and the
\* submitted department in title case; the list view still returns every
\* document stored before the add
C3_AddThenView ==
  [][ (/\ req.op = "add"
       /\ Employee(ReqDoc).ok
       /\ ~ Found(before, req.employee_id)
       /\ req'.op = "view"
       /\ req'.employee_id \in {0, req.employee_id})
      => LET added == Doc(req.employee_id, req.full_name, req.age, str_title(req.department))
             shown == resp'.employees
         IN /\ resp'.page = "view.html"
            /\ Cardinality({k \in 1..Len(shown) : shown[k].employee_id = req.employee_id}) = 1
            /\ \E k \in 1..Len(shown) : shown[k] = added
            /\ req'.employee_id = 0 => Contained(before, shown)
            /\ req'.employee_id # 0 => shown = <<added>> ]_vars

\* an add into a collection that held a document has been accepted
C3_Witness ==
  /\ req.op = "add"
  /\ resp = RedirectResponse
  /\ Len(before) >= 1
  /\ Len(employees_collection) = Len(before) + 1

\* C4: an update whose old employee_id is not stored is answered with the
\* 'not found' error, whether the new values are valid or not, and leaves
\* the collection as it was
C4_UpdateMissingRejected ==
  (req.op = "update" /\ ~ Found(before, req.employee_id))
    => (resp = error_page(<<MsgUpdateNotFound>>) /\ employees_collection = before)

\* the update of a missing id carried values that fail validation
C4_Witness ==
  /\ req.op = "update"
  /\ ~ Found(before, req.employee_id)
  /\ ~ Employee(UpdateDoc).ok
  /\ Len(before) >= 1
  /\ resp.errors = <<MsgUpdateNotFound>>

\* C5: an update of a stored document with valid new values whose new_id
\* differs from the old id and is the id of another stored document is
\* answered with the 'already exists' error and changes nothing; an update
\* with new_id equal to the old id is never answered with that error
C5_UpdateConflict ==
  /\ (/\ req.op = "update"
      /\ Found(before, req.employee_id)
      /\ Employee(UpdateDoc).ok
      /\ req.new_id # req.employee_id
      /\ Found(before, req.new_id))
       => (resp = error_page(<<MsgUpdateExists>>) /\ employees_collection = before)
  /\ (req.op = "update" /\ req.new_id = req.employee_id)
       => \A k \in 1..Len(resp.errors) : resp.errors[k] # MsgUpdateExists

C5_Witness ==
  /\ req.op = "update"
  /\ Found(before, req.employee_id)
  /\ Employee(UpdateDoc).ok
  /\ req.new_id # req.employee_id
  /\ Found(before, req.new_id)
  /\ resp.errors = <<MsgUpdateExists>>

\* C6: a delete with employee_id 0 leaves the collection empty whatever it
\* held; a delete with another employee_id that is not stored is answered
\* with the 'not found' error and leaves the collection as it was
C6_DeleteZeroOrMissing ==
  /\ (req.op = "delete" /\ req.employee_id = 0) => employees_collection = <<>>
  /\ (req.op = "delete" /\ req.employee_id # 0 /\ ~ Found(before, req.employee_id))
       => (resp = error_page(<<MsgDeleteNotFound>>) /\ employees_collection = before)

\* a delete with id 0 has emptied a collection of several documents
C6_Witness ==
  /\ req.op = "delete"
  /\ req.employee_id = 0
  /\ Len(before) >= 2
  /\ employees_collection = <<>>

\* C7: a delete whose employee_id is stored removes the document with that
\* id and no other: the documents with another id are stored unchanged and
\* the number of documents drops by one
C7_DeleteOne ==
  (req.op = "delete" /\ Found(before, req.employee_id))
    => /\ Len(employees_collection) = Len(before) - 1
       /\ ~ Found(employees_collection, req.employee_id)
       /\ Contained(employees_collection, before)
       /\ \A i \in 1..Len(before) :
            before[i].employee_id # req.employee_id
              => \E j \in 1..Len(employees_collection) : employees_collection[j] = before[i]

C7_Witness ==
  /\ req.op = "delete"
  /\ Found(before, req.employee_id)
  /\ Len(before) >= 2
  /\ Len(employees_collection) = Len(before) - 1
  /\ resp = RedirectResponse

\* the number of positions of coll that hold the document d
Count(coll, d) == Cardinality({i \in 1..Len(coll) : coll[i] = d})

GetOps == {"view", "add_page", "update_page", "delete_page", "homepage"}

\* C13: the GET requests (list and search view, the add, update and delete
\* form pages, the homepage) leave the collection as it was
C13_GetLeavesCollection ==
  [][req'.op \in GetOps => employees_collection' = employees_collection]_vars

\* the homepage has been rendered with the stored documents
C13_Witness ==
  /\ req.op = "homepage"
  /\ Len(employees_collection) >= 2
  /\ resp.employees = employees_collection
  /\ before = employees_collection

\* C15: an update of a stored document with valid new values and no
\* conflict rewrites that document and no other: one document holds new_id
\* with the submitted full_name and age and the department in title case,
\* none holds the old id when new_id differs from it, every other document
\* is unchanged and the number of documents is the same
C15_UpdateOne ==
  (/\ req.op = "update"
   /\ Found(before, req.employee_id)
   /\ Employee(UpdateDoc).ok
   /\ ~ (req.new_id # req.employee_id /\ Found(before, req.new_id)))
    => LET updated == Doc(req.new_id, req.full_name, req.age, str_title(req.department))
       IN /\ Len(employees_collection) = Len(before)
          /\ Cardinality(Matches(employees_collection, req.new_id)) = 1
          /\ \E i \in 1..Len(employees_collection) : employees_collection[i] = updated
          /\ req.new_id # req.employee_id => ~ Found(employees_collection, req.employee_id)
          /\ \A i \in 1..Len(before) :
               before[i].employee_id # req.employee_id => employees_collection[i] = before[i]

\* a lone document has been moved to another id with other values
C15_Witness ==
  /\ req.op = "update"
  /\ resp = RedirectResponse
  /\ req.new_id # req.employee_id
  /\ Len(before) = 1
  /\ before[1].full_name # req.full_name
  /\ employees_collection = <<Doc(req.new_id, req.full_name, req.age, req.department)>>

\* C16: with requests processed one at a time, an add, update or delete
\* answered with the error page leaves the collection as it was, and one
\* answered with the 303 redirect has applied its insert, replace or delete
C16_ErrorOrApplied ==
  (req.op \in {"add", "update", "delete"})
    => /\ resp.page = "error.html" \/ resp = RedirectResponse
       /\ resp.page = "error.html" => employees_collection = before
       /\ resp.status = 303 =>
            CASE req.op = "add" ->
                   employees_collection
                     = Append(before, Doc(req.employee_id, req.full_name, req.age, str_title(req.department)))
              [] req.op = "update" ->
                   \E i \in 1..Len(before) :
                     /\ before[i].employee_id = req.employee_id
                     /\ employees_collection
                          = [before EXCEPT ![i] = Doc(req.new_id, req.full_name, req.age, str_title(req.department))]
              [] req.op = "delete" ->
                   IF \E i \in 1..Len(before) : before[i].employee_id = req.employee_id
                   THEN /\ Len(employees_collection) = Len(before) - 1
                        /\ \A i \in 1..Len(employees_collection) :
                             employees_collection[i].employee_id # req.employee_id
                   ELSE employees_collection = <<>>

\* an update of a stored document has been refused for several fields
C16_Witness ==
  /\ req.op = "update"
  /\ Found(before, req.employee_id)
  /\ resp.page = "error.html"
  /\ Len(resp.errors) >= 2
  /\ employees_collection = before
  /\ Len(before) >= 1

----------------------------------------------------------------------------
(* The handlers one database call at a time: requests in progress          *)
(* interleave between the calls.  Each operator is the part of a handler   *)
(* around one call on the collection; it leaves the collection, the        *)
(* response when the handler returns there, and the place the handler has  *)
(* reached.                                                                *)

Validated_employee(request) ==
  Employee(Doc(request.employee_id, request.full_name, request.age, request.department))

Validated_update(request) ==
  Employee(Doc(request.new_id, request.full_name, request.age, request.department))

\* add_employee up to its find_one
add_employee_find(coll, request) ==
  IF ~ Validated_employee(request).ok
  THEN Step(coll, error_page(Validated_employee(request).errors), "idle")
  ELSE IF Found(coll, Validated_employee(request).value.employee_id)
  THEN Step(coll, error_page(<<MsgAddExists>>), "idle")
  ELSE Step(coll, NoResponse, "add_insert")

\* the insert that a unique index on employee_id refuses
add_employee_insert_unique(coll, request) ==
  IF Found(coll, request.employee_id)
  THEN Step(coll, error_page(<<MsgAddExists>>), "idle")
  ELSE Step(insert_one(coll, Validated_employee(request).value), RedirectResponse, "idle")

\* add_employee from its insert_one
add_employee_insert(coll, request) ==
  Step(insert_one(coll, Validated_employee(request).value), RedirectResponse, "idle")

\* update_employee up to the validation; the lookup of new_id is skipped
\* when new_id is the old id
update_employee_find(coll, request) ==
  IF ~ Found(coll, request.employee_id)
  THEN Step(coll, error_page(<<MsgUpdateNotFound>>), "idle")
  ELSE IF ~ Validated_update(request).ok
  THEN Step(coll, error_page(Validated_update(request).errors), "idle")
  ELSE IF request.new_id # request.employee_id
  THEN Step(coll, NoResponse, "update_conflict")
  ELSE Step(coll, NoResponse, "update_write")

\* update_employee at its find_one of new_id
update_employee_conflict(coll, request) ==
  IF Found(coll, Validated_update(request).value.employee_id)
  THEN Step(coll, error_page(<<MsgUpdateExists>>), "idle")
  ELSE Step(coll, NoResponse, "update_write")

\* update_employee from its update_one
update_employee_write(coll, request) ==
  Step(update_one(coll, request.employee_id, Validated_update(request).value), RedirectResponse, "idle")

\* delete_employee up to the choice of its branch
delete_employee_find(coll, request) ==
  IF Found(coll, request.employee_id)
  THEN Step(coll, NoResponse, "delete_one")
  ELSE IF request.employee_id = DeleteAllId
  THEN Step(coll, NoResponse, "delete_many")
  ELSE Step(coll, error_page(<<MsgDeleteNotFound>>), "idle")

delete_employee_one(coll, request) ==
  Step(delete_one(coll, request.employee_id), RedirectResponse, "idle")

delete_employee_many(coll, request) ==
  Step(delete_many(coll), RedirectResponse, "idle")

\* the name, age and department a form submits while requests interleave
ConcurrentFields ==
  { <<JohnRoe, MaxAge, HumanResources>>,
    <<str_repeat("a", MinNameLen), MaxAge + 1, Sales>> }

\* procs is the bag of the requests in progress, each with the place its
\* handler has reached; the handlers share nothing else, so which worker
\* runs a request is not recorded
InProgress == BagCardinality(procs)

\* the workers that run handlers at the same time: two, as in the races
\* between a request and one concurrent request
Workers == {"w1", "w2"}

\* a worker is free to take a request
WorkerFree == InProgress < Cardinality(Workers)

\* inserts that requests in progress are about to make
RECURSIVE Copies(_)
Copies(S) == IF S = {} THEN 0 ELSE LET r == CHOOSE x \in S : TRUE IN CopiesIn(r, procs) + Copies(S \ {r})

PendingInserts == Copies({r \in BagToSet(procs) : r.pc = "add_insert"})

\* one database call of a request: the request goes on from the place the
\* call leaves it at, or it is answered
Take(request, step) ==
  /\ employees_collection' = step.coll
  /\ UNCHANGED before
  /\ IF step.resp = NoResponse
     THEN /\ procs' = procs (+) SetToBag({Proc(step.pc, request)})
          /\ UNCHANGED <<req, resp>>
     ELSE /\ procs' = procs
          /\ req' = request
          /\ resp' = step.resp

\* the same for a request in progress, which leaves the place it was at
Resume(r, step) ==
  /\ employees_collection' = step.coll
  /\ UNCHANGED before
  /\ IF step.resp = NoResponse
     THEN /\ procs' = (procs (-) SetToBag({r})) (+) SetToBag({Proc(step.pc, r.request)})
          /\ UNCHANGED <<req, resp>>
     ELSE /\ procs' = procs (-) SetToBag({r})
          /\ req' = r.request
          /\ resp' = step.resp

At(pc) == {r \in BagToSet(procs) : r.pc = pc}

AddFind ==
  \E employee_id \in Ids, f \in ConcurrentFields :
    /\ WorkerFree
    /\ Len(employees_collection) + PendingInserts < MaxDocs
    /\ LET request == Request("add", employee_id, 0, f[1], f[2], f[3])
       IN Take(request, add_employee_find(employees_collection, request))

AddInsert ==
  \E r \in At("add_insert") :
    Resume(r, add_employee_insert(employees_collection, r.request))

UpdateFind ==
  \E employee_id \in Ids, new_id \in Ids, f \in ConcurrentFields :
    /\ WorkerFree
    /\ LET request == Request("update", employee_id, new_id, f[1], f[2], f[3])
       IN Take(request, update_employee_find(employees_collection, request))

UpdateConflict ==
  \E r \in At("update_conflict") :
    Resume(r, update_employee_conflict(employees_collection, r.request))

UpdateWrite ==
  \E r \in At("update_write") :
    Resume(r, update_employee_write(employees_collection, r.request))

DeleteFind ==
  \E employee_id \in Ids :
    /\ WorkerFree
    /\ LET request == Request("delete", employee_id, 0, <<>>, 0, <<>>)
       IN Take(request, delete_employee_find(employees_collection, request))

DeleteOne ==
  \E r \in At("delete_one") :
    Resume(r, delete_employee_one(employees_collection, r.request))

DeleteMany ==
  \E r \in At("delete_many") :
    Resume(r, delete_employee_many(employees_collection, r.request))

NextConcurrent ==
  \/ AddFind
  \/ AddInsert
  \/ UpdateFind
  \/ UpdateConflict
  \/ UpdateWrite
  \/ DeleteFind
  \/ DeleteOne
  \/ DeleteMany

SpecConcurrent == Init /\ [][NextConcurrent]_vars

----------------------------------------------------------------------------
(* The validators applied to candidate values *)

SeqsUpTo(S, n) == UNION {[1..k -> S] : k \in 0..n}

\* a lower-case letter, an upper-case letter, the space, a digit and a
\* punctuation character
NameChars == {"a", "J", " ", "1", "-"}

\* names of every length up to one past the maximum: a free prefix followed
\* by one character repeated
CandidateNames ==
  {h \o str_repeat(c, n) : h \in SeqsUpTo(NameChars, MaxHead), c \in NameChars, n \in 0..(MaxNameLen + 1)}
    \cup {JaneDoe, JohnRoe}

char_swapcase(c) == IF IsLower(c) THEN char_upper(c) ELSE char_lower(c)

\* each department name as listed, lowered, raised, with the case of one
\* letter swapped, with a trailing space and cut short; a name not listed;
\* the empty string
CandidateDepartments ==
  UNION { {d, str_lower(d), str_upper(d), Append(d, " "), SubSeq(d, 1, Len(d) - 1)}
            \cup {[d EXCEPT ![i] = char_swapcase(d[i])] : i \in 1..Len(d)}
          : d \in {List_of_Departments[i] : i \in 1..Len(List_of_Departments)} }
    \cup {Sales, <<>>}

CandidateIds == (MinEmployeeId - 2)..(MinEmployeeId + 1)
CandidateAges == {MinAge - 1, MinAge, MinAge + 1, MaxAge - 1, MaxAge, MaxAge + 1}

CandidateDocs ==
  { Doc(i, n, a, d) :
      i \in {MinEmployeeId - 1, MinEmployeeId},
      n \in {JaneDoe, str_repeat("a", MinNameLen), <<"J","a","n","e">>, <<"J","a","n","e","1">>},
      a \in {MinAge - 1, MinAge, MaxAge, MaxAge + 1},
      d \in {Finance, str_lower(Finance), Sales} }

\* the validator calls to make, each with its argument
CandidateCalls ==
  {Request("validate_employee_id", value, 0, <<>>, 0, <<>>) : value \in CandidateIds}
    \cup {Request("validate_age", 0, 0, <<>>, value, <<>>) : value \in CandidateAges}
    \cup {Request("validate_name", 0, 0, name, 0, <<>>) : name \in CandidateNames}
    \cup {Request("validate_department", 0, 0, <<>>, 0, department) : department \in CandidateDepartments}
    \cup {Request("Employee", doc.employee_id, 0, doc.full_name, doc.age, doc.department) : doc \in CandidateDocs}

InitValidate ==
  /\ employees_collection = <<>>
  /\ before = <<>>
  /\ req \in CandidateCalls
  /\ resp = NoResponse
  /\ procs = EmptyBag

\* the call of req is made and resp holds what it returns or raises
Validated(op, result) ==
  /\ req.op = op
  /\ resp = NoResponse
  /\ resp' = result
  /\ UNCHANGED <<employees_collection, before, req, procs>>

ValidateEmployeeId == Validated("validate_employee_id", validate_employee_id(req.employee_id))

ValidateAge == Validated("validate_age", validate_age(req.age))

ValidateName == Validated("validate_name", validate_name(req.full_name))

ValidateDepartment == Validated("validate_department", validate_department(req.department))

ValidateEmployee ==
  Validated("Employee", Employee(Doc(req.employee_id, req.full_name, req.age, req.department)))

NextValidate ==
  ValidateEmployeeId \/ ValidateAge \/ ValidateName \/ ValidateDepartment \/ ValidateEmployee

SpecValidate == InitValidate /\ [][NextValidate]_vars

----------------------------------------------------------------------------
(* Properties of the validators, checked under SpecValidate *)

\* the call of req has returned or raised
Returned == resp # NoResponse

Listed == {List_of_Departments[i] : i \in 1..Len(List_of_Departments)}

\* C8: department validation accepts every string that equals one of the
\* five department names when letter case is ignored, returns it in title
\* case, and rejects every other string
C8_DepartmentAnyCase ==
  (req.op = "validate_department" /\ Returned)
    => /\ resp.ok <=> \E d \in Listed : str_lower(d) = str_lower(req.department)
       /\ resp.ok => resp.value = str_title(req.department)

\* the field that fails first when the rules are checked in the order
\* employee_id, age, full_name, department
FirstFailing(doc) ==
  IF ~ validate_employee_id(doc.employee_id).ok THEN "employee_id"
  ELSE IF ~ validate_age(doc.age).ok THEN "age"
  ELSE IF ~ validate_name(doc.full_name).ok THEN "full_name"
  ELSE "department"

\* C9 as claimed: the rules are checked in the order employee_id, age,
\* full_name, department, and a record that violates several rules is
\* reported with the failure of the first violated rule in that order
C9_FirstViolatedRuleOnly ==
  (req.op = "Employee" /\ Returned /\ ~ resp.ok)
    => resp.errors = <<FieldResult(ReqDoc, FirstFailing(ReqDoc)).msg>>

\* the message of the first check that the name fails: length, then
\* letters and spaces only, then not one repeated character
NameFailure(name) ==
  IF Len(name) < 5 \/ Len(name) > 100 THEN MsgNameLength
  ELSE IF \/ \E i \in 1..Len(name) : ~ IsAlpha(name[i]) /\ name[i] # " "
          \/ \A i \in 1..Len(name) : name[i] = " "
  THEN MsgNameLetters
  ELSE MsgNameRepeat

\* the fields of the record that their validators reject
Failing(doc) == {f \in {"employee_id", "full_name", "age", "department"} : ~ FieldResult(doc, f).ok}

FieldPosition(f) ==
  CASE f = "employee_id" -> 1 [] f = "full_name" -> 2 [] f = "age" -> 3 [] f = "department" -> 4

FieldFailure(doc, f) ==
  CASE f = "employee_id" -> MsgEmployeeId
    [] f = "full_name" -> NameFailure(doc.full_name)
    [] f = "age" -> MsgAge
    [] f = "department" -> MsgDepartment

\* C9 amended: every field is validated, in the order employee_id,
\* full_name, age, department; the failure reported carries one failure for
\* each field that fails, in that order, and for a failing name the first of
\* its violated checks (length, letters, repetition); the record is accepted
\* exactly when no field fails
C9_EveryFailingFieldInFieldOrder ==
  (req.op = "Employee" /\ Returned)
    => /\ resp.ok <=> Failing(ReqDoc) = {}
       /\ Len(resp.errors) = Cardinality(Failing(ReqDoc))
       /\ \A f \in Failing(ReqDoc) :
            resp.errors[Cardinality({g \in Failing(ReqDoc) : FieldPosition(g) <= FieldPosition(f)})]
              = FieldFailure(ReqDoc, f)

\* a record whose name and age both fail has been validated
C9_Witness ==
  /\ req.op = "Employee"
  /\ Returned
  /\ resp.errors = <<MsgNameLetters, MsgAge>>

\* C10: name validation accepts a name exactly when its length is between 5
\* and 100, every character is a letter or a space, at least one is a
\* letter, and the name is not one character repeated; 'aaaaa' is rejected
\* and 'Jane Doe' is accepted
C10_NameAccepted ==
  (req.op = "validate_name" /\ Returned)
    => LET name == req.full_name
       IN /\ resp.ok <=> /\ Len(name) >= 5
                         /\ Len(name) <= 100
                         /\ \A i \in 1..Len(name) : IsAlpha(name[i]) \/ name[i] = " "
                         /\ \E i \in 1..Len(name) : IsAlpha(name[i])
                         /\ \E i \in 1..Len(name) : name[i] # name[1]
          /\ resp.ok => resp.value = name
          /\ name = <<"a","a","a","a","a">> => ~ resp.ok
          /\ name = <<"J","a","n","e"," ","D","o","e">> => resp.ok

\* a name of the greatest length has been accepted
C10_Witness ==
  /\ req.op = "validate_name"
  /\ Returned
  /\ Len(req.full_name) = 100
  /\ resp.ok

\* C11: age validation accepts an age exactly when 18 <= age <= 100: 18 and
\* 100 are accepted, 17 and 101 are rejected
C11_AgeAccepted ==
  (req.op = "validate_age" /\ Returned)
    => /\ resp.ok <=> (18 <= req.age /\ req.age <= 100)
       /\ resp.ok => resp.value = req.age
       /\ req.age \in {18, 100} => resp.ok
       /\ req.age \in {17, 101} => ~ resp.ok

\* the age 100 has been accepted
C11_Witness ==
  /\ req.op = "validate_age"
  /\ Returned
  /\ req.age = 100
  /\ resp.ok

----------------------------------------------------------------------------
(* Properties of interleaved requests, checked under SpecConcurrent *)

\* the request in progress r is answered in this step
Answered(r) == procs' = procs (-) SetToBag({r})

Duplicated(coll, employee_id) == Cardinality(Matches(coll, employee_id)) >= 2

\* C14: the existence check and the write of a request are separate steps,
\* so two documents can come to share an employee_id: an add that passed
\* its check inserts although another request has stored the id since, and
\* an update that passed its checks moves its document to new_id although
\* another request has stored new_id since
C14_WriteAfterStaleCheck ==
  [][ \A r \in BagToSet(procs) :
        Answered(r) =>
          /\ (r.pc = "add_insert" /\ Found(employees_collection, r.request.employee_id))
               => Duplicated(employees_collection', r.request.employee_id)
          /\ (/\ r.pc = "update_write"
              /\ r.request.new_id # r.request.employee_id
              /\ Found(employees_collection, r.request.employee_id)
              /\ Found(employees_collection, r.request.new_id))
               => Duplicated(employees_collection', r.request.new_id) ]_vars

\* an add has been answered with the redirect and two documents hold its id
C14_Witness ==
  /\ req.op = "add"
  /\ resp = RedirectResponse
  /\ Duplicated(employees_collection, req.employee_id)

\* C17: from the empty collection, also when requests interleave, every
\* stored document has employee_id >= 1, an age in 18..100, a valid
\* full_name and a listed department; no document has employee_id 0, so a
\* delete with id 0 takes the delete-all branch, never the delete-one branch
C17_StoredDocumentsValid ==
  /\ \A i \in 1..Len(employees_collection) :
       LET d == employees_collection[i]
       IN /\ d.employee_id >= 1
          /\ d.age >= 18
          /\ d.age <= 100
          /\ Len(d.full_name) >= 5
          /\ Len(d.full_name) <= 100
          /\ \A k \in 1..Len(d.full_name) : IsAlpha(d.full_name[k]) \/ d.full_name[k] = " "
          /\ \E k \in 1..Len(d.full_name) : IsAlpha(d.full_name[k])
          /\ \E k \in 1..Len(d.full_name) : d.full_name[k] # d.full_name[1]
          /\ d.department \in Listed
  /\ \A r \in BagToSet(procs) :
       (r.request.op = "delete" /\ r.request.employee_id = 0) => r.pc = "delete_many"

\* a delete with id 0 is about to delete all while an add is about to
\* insert next to the stored documents
C17_Witness ==
  /\ At("delete_many") # {}
  /\ At("add_insert") # {}
  /\ Len(employees_collection) >= 1

\* C18: an update that passed its existence check and finds no document of
\* its old employee_id when it writes (a concurrent delete removed it, or a
\* concurrent update moved it to another id) is still answered with the 303
\* redirect, and its write changes no document
C18_UpdateWritesNothing ==
  [][ \A r \in At("update_write") :
        (Answered(r) /\ ~ Found(employees_collection, r.request.employee_id))
          => /\ resp' = RedirectResponse
             /\ req' = r.request
             /\ employees_collection' = employees_collection ]_vars

\* an update has been answered with the redirect and no document holds its
\* old id or its new id
C18_Witness ==
  /\ req.op = "update"
  /\ resp = RedirectResponse
  /\ ~ Found(employees_collection, req.employee_id)
  /\ ~ Found(employees_collection, req.new_id)
  /\ \A i \in 1..Len(employees_collection) : employees_collection[i] # Validated_update(req).value

====
